---- MODULE Spec2Model ----
(***************************************************************************)
(* Model of devtools' version resolution engine (src/devtools/version.py). *)
(*                                                                         *)
(* Python strings are modelled as sequences of one-character strings, so   *)
(* that rendering, parsing, prefix tests and splitting are computed the    *)
(* way the code computes them.  A call that raises is modelled by a result *)
(* record [ok |-> FALSE, err |-> <exception class>].                       *)
(***************************************************************************)
EXTENDS Integers, Sequences, FiniteSets, TLC

VARIABLES
    \* the repository the version-control tool reads
    branch,         \* current branch name (text)
    commits,        \* history of HEAD, oldest first; commit i has hash i
    \* one execution of get_next_version
    flavor,         \* the requested VersionFlavor
    pc,             \* position of the execution
    rule,           \* matched VersionRule (index into version_rules, 0: unset)
    repo_version,   \* result of get_repo_data
    head,           \* get_commits: hash the iteration started from (0: None)
    commit_hash,    \* get_commits: hash of the commit being fetched (0: None)
    skip,           \* get_commits: skip counter
    tags,           \* get_commits: tags fetched for commit_hash
    change,         \* get_ancestral_data: running maximum VersionChange
    ncalls,         \* number of version-control process calls issued
    returncode,     \* run_command: exit code of the last process call
    yielded,        \* get_commits: the Commit objects yielded so far
    ancestral_data, \* what get_ancestral_data returned (the version) or raised
    bumps,          \* the changes bump_version was invoked with
    result,         \* what get_next_version returned or raised
    \* one application of a function of the module to given arguments
    fn,             \* name of the function applied ("" before any)
    arg,            \* its arguments
    ret             \* what it returned or raised

vars == <<branch, commits, flavor, pc, rule, repo_version, head, commit_hash,
          skip, tags, change, ncalls, returncode, yielded, ancestral_data,
          bumps, result, fn, arg, ret>>

runVars == <<branch, commits, flavor, pc, rule, repo_version, head,
             commit_hash, skip, tags, change, ncalls, returncode, yielded,
             ancestral_data, bumps, result>>

fnVars == <<fn, arg, ret>>

(***************************************************************************)
(* Text                                                                    *)
(***************************************************************************)

\* The characters in use, in increasing code point order.
Ascii ==
    << "\n", " ", "+", "-", ".", "/",
       "0", "1", "2", "3", "4", "5", "6", "7", "8", "9", ":",
       "A", "B", "C", "E", "G", "H", "I", "K", "N", "R",
       "a", "b", "c", "d", "e", "f", "h", "i", "l", "m", "n", "o", "p",
       "r", "s", "t", "u", "v", "w", "x", "y", "z" >>

Ord(c) == CHOOSE i \in 1..Len(Ascii) : Ascii[i] = c

IsDigit(c) == c \in {"0", "1", "2", "3", "4", "5", "6", "7", "8", "9"}

IsAlnum(c) == Ord(c) >= Ord("0") /\ c # ":"

IsSpace(c) == c \in {"\n", " "}

DigitChar(d) == Ascii[Ord("0") + d]

DigitVal(c) == Ord(c) - Ord("0")

\* str(n) for a non-negative int
RECURSIVE NatToText(_)
NatToText(n) ==
    IF n < 10 THEN <<DigitChar(n)>>
    ELSE NatToText(n \div 10) \o <<DigitChar(n % 10)>>

\* int(s) for a text of digits
RECURSIVE TextToNat(_)
TextToNat(s) ==
    IF s = <<>> THEN 0
    ELSE 10 * TextToNat(SubSeq(s, 1, Len(s) - 1)) + DigitVal(s[Len(s)])

\* s.startswith(p)
StartsWith(s, p) == Len(s) >= Len(p) /\ SubSeq(s, 1, Len(p)) = p

\* s < t for two str (lexicographic by code point)
RECURSIVE TextLt(_, _)
TextLt(s, t) ==
    IF t = <<>> THEN FALSE
    ELSE IF s = <<>> THEN TRUE
    ELSE IF s[1] # t[1] THEN Ord(s[1]) < Ord(t[1])
    ELSE TextLt(Tail(s), Tail(t))

\* s.strip()
RECURSIVE Strip(_)
Strip(s) ==
    IF s = <<>> THEN s
    ELSE IF IsSpace(s[1]) THEN Strip(Tail(s))
    ELSE IF IsSpace(s[Len(s)]) THEN Strip(SubSeq(s, 1, Len(s) - 1))
    ELSE s

\* s.splitlines(): the lines of s, a trailing line break adding no line
RECURSIVE SplitLines(_)
SplitLines(s) ==
    IF s = <<>> THEN <<>>
    ELSE LET brk == {i \in 1..Len(s) : s[i] = "\n"}
         IN IF brk = {} THEN <<s>>
            ELSE LET i == CHOOSE j \in brk : \A k \in brk : j <= k
                 IN <<SubSeq(s, 1, i - 1)>> \o SplitLines(SubSeq(s, i + 1, Len(s)))

\* length of the longest run of digits of s that starts at position i
RECURSIVE DigitRun(_, _)
DigitRun(s, i) ==
    IF i > Len(s) THEN 0
    ELSE IF IsDigit(s[i]) THEN 1 + DigitRun(s, i + 1)
    ELSE 0

(***************************************************************************)
(* Results of calls                                                        *)
(***************************************************************************)

Ok(v) == [ok |-> TRUE, err |-> "", val |-> v]

Raise(e) == [ok |-> FALSE, err |-> e, val |-> <<>>]

(***************************************************************************)
(* Version                                                                 *)
(***************************************************************************)

\* pre: tuple[str, int] | None
NoPre == [some |-> FALSE, tag |-> <<>>, count |-> 0]

Pre(t, c) == [some |-> TRUE, tag |-> t, count |-> c]

\* metadata: str | None
NoText == [some |-> FALSE, text |-> <<>>]

SomeText(t) == [some |-> TRUE, text |-> t]

Version(major, minor, patch, pre, metadata) ==
    [major |-> major, minor |-> minor, patch |-> patch,
     pre |-> pre, metadata |-> metadata]

\* Python truth of self.metadata: None and "" are false
Truthy(t) == t.some /\ t.text # <<>>

\* "{major}.{minor}.{patch}"
ReleaseText(v) ==
    NatToText(v.major) \o <<".">> \o NatToText(v.minor) \o <<".">>
        \o NatToText(v.patch)

\* semver.replace("+", "-")
ReplacePlus(s) == [i \in 1..Len(s) |-> IF s[i] = "+" THEN "-" ELSE s[i]]

as_string(v, fl) ==
    LET semver ==
            ReleaseText(v)
              \o (IF v.pre.some
                  THEN <<"-">> \o v.pre.tag \o <<".">> \o NatToText(v.pre.count)
                  ELSE <<>>)
              \o (IF Truthy(v.metadata) THEN <<"+">> \o v.metadata.text ELSE <<>>)
        node ==
            ReleaseText(v)
              \o (IF v.pre.some /\ v.pre.tag # <<>>
                  THEN <<"-">> \o v.pre.tag ELSE <<>>)
              \o (IF Truthy(v.metadata) THEN <<".">> \o v.metadata.text ELSE <<>>)
              \o (IF v.pre.some /\ v.pre.count # 0
                  THEN <<".">> \o NatToText(v.pre.count) ELSE <<>>)
    IN CASE fl = "semver" -> Ok(semver)
         [] fl = "git" -> Ok(<<"v">> \o semver)
         [] fl = "docker" -> Ok(ReplacePlus(semver))
         [] fl = "node" -> Ok(node)
         [] OTHER -> Raise("NotImplementedError")

\* str(version)
VersionText(v) == as_string(v, "semver").val

NoMatch ==
    [matched |-> FALSE, major |-> <<>>, minor |-> <<>>, patch |-> <<>>,
     pre_tag |-> NoText, pre_count |-> NoText, metadata |-> NoText]

\* whether s, from position i on, matches  [\d]+ (?:\+.*)? $
CountTailMatches(s, i) ==
    (i <= Len(s) /\ IsDigit(s[i]))
      /\ (i + DigitRun(s, i) > Len(s) \/ s[i + DigitRun(s, i)] = "+")

\* version_re.match(s) for a text s without line breaks, by the stages of
\* the pattern; a stage gets the lengths of the runs of digits matched so far.

\* (?:-(?P<pre_tag>.*)\.(?P<pre_count>[\d]+)) matched with its "." at
\* position k and a count of d digits, then (?:\+(?P<metadata>.*))?$
version_re_pre(s, base, p3, k, d) ==
    [base EXCEPT !.pre_tag = SomeText(SubSeq(s, p3 + 1, k - 1)),
                 !.pre_count = SomeText(SubSeq(s, k + 1, k + d)),
                 !.metadata = IF k + d < Len(s)
                              THEN SomeText(SubSeq(s, k + d + 2, Len(s)))
                              ELSE NoText]

\* the prerelease group is tried first and its tag is greedy: `dots` are
\* the places of a "." after which the rest of the pattern matches, and the
\* tag ends at the last of them; without any the group is skipped
version_re_groups(s, base, p3, dots) ==
    IF dots # {}
    THEN version_re_pre(s, base, p3,
                        CHOOSE j \in dots : \A i \in dots : i <= j,
                        DigitRun(s, 1 + (CHOOSE j \in dots : \A i \in dots : i <= j)))
    ELSE IF p3 > Len(s) THEN base
    ELSE IF s[p3] = "+"
         THEN [base EXCEPT !.metadata = SomeText(SubSeq(s, p3 + 1, Len(s)))]
    ELSE NoMatch

\* \.(?P<patch>[\d]+) and on, after a major of d1 and a minor of d2 digits
version_re_patch(s, d1, d2, d3) ==
    IF d3 = 0 THEN NoMatch
    ELSE version_re_groups(
             s,
             [matched |-> TRUE,
              major |-> SubSeq(s, 1, d1),
              minor |-> SubSeq(s, d1 + 2, d1 + d2 + 1),
              patch |-> SubSeq(s, d1 + d2 + 3, d1 + d2 + d3 + 2),
              pre_tag |-> NoText, pre_count |-> NoText, metadata |-> NoText],
             d1 + d2 + d3 + 3,
             {k \in (d1 + d2 + d3 + 4)..Len(s) :
                 s[d1 + d2 + d3 + 3] = "-" /\ s[k] = "." /\ CountTailMatches(s, k + 1)})

\* \.(?P<minor>[\d]+) and on, after a major of d1 digits
version_re_minor(s, d1, d2) ==
    IF d2 >= 1 /\ d1 + d2 + 2 <= Len(s) /\ s[d1 + d2 + 2] = "."
    THEN version_re_patch(s, d1, d2, DigitRun(s, d1 + d2 + 3))
    ELSE NoMatch

\* ^(?P<major>[\d]+) and on
version_re_major(s, d1) ==
    IF d1 >= 1 /\ d1 + 1 <= Len(s) /\ s[d1 + 1] = "."
    THEN version_re_minor(s, d1, DigitRun(s, d1 + 2))
    ELSE NoMatch

version_re(s) == version_re_major(s, DigitRun(s, 1))

\* Version.from_string from the match on: `pre` is bound only when both
\* prerelease groups are non-empty; otherwise the read of `pre` in the return
\* statement raises
from_match(match) ==
    IF ~match.matched THEN Raise("ValueError")
    ELSE IF Truthy(match.pre_tag) /\ Truthy(match.pre_count)
         THEN Ok(Version(TextToNat(match.major), TextToNat(match.minor),
                         TextToNat(match.patch),
                         Pre(match.pre_tag.text, TextToNat(match.pre_count.text)),
                         match.metadata))
    ELSE Raise("UnboundLocalError")

from_string(value) == from_match(version_re(value))

(***************************************************************************)
(* Ordering of versions                                                    *)
(***************************************************************************)

\* One element of the tuple Version.__lt__ compares: an int, a str or a
\* Maximum() instance.
IntElem(n) == [max |-> FALSE, num |-> n, text |-> <<>>]

TextElem(t) == [max |-> FALSE, num |-> 0, text |-> t]

MaxElem == [max |-> TRUE, num |-> 0, text |-> <<>>]

\* Maximum.__lt__(self, other)
Maximum_lt(other) == IF other.max THEN FALSE ELSE TRUE

\* x == y for two tuple elements. Maximum defines no __eq__ and every use
\* builds fresh instances, so a Maximum equals nothing.
ElemEq(x, y) == ~x.max /\ ~y.max /\ x = y

\* x < y for two tuple elements. With y a Maximum and x not, Python falls
\* back on the reflected y.__gt__(x), which total_ordering derives from
\* Maximum.__lt__ as (not y < x) and y != x.
ElemLt(x, y) ==
    IF x.max THEN Maximum_lt(y)
    ELSE IF y.max THEN ~Maximum_lt(x) /\ TRUE
    ELSE IF x.text # <<>> \/ y.text # <<>> THEN TextLt(x.text, y.text)
    ELSE x.num < y.num

\* a < b for two tuples of the same length
RECURSIVE TupleLt(_, _)
TupleLt(a, b) ==
    IF a = <<>> THEN FALSE
    ELSE IF ElemEq(a[1], b[1]) THEN TupleLt(Tail(a), Tail(b))
    ELSE ElemLt(a[1], b[1])

\* (self.major, self.minor, self.patch, *(self.pre or (Maximum(), Maximum())))
VersionData(v) ==
    <<IntElem(v.major), IntElem(v.minor), IntElem(v.patch)>>
      \o (IF v.pre.some THEN <<TextElem(v.pre.tag), IntElem(v.pre.count)>>
          ELSE <<MaxElem, MaxElem>>)

\* Version.__lt__(self, other)
Version_lt(self, other) == TupleLt(VersionData(self), VersionData(other))

\* self > other for two Version objects, as total_ordering derives it from
\* __lt__: (not self < other) and self != other. Version defines no __eq__,
\* so != is the comparison of identity, true of two objects.
Version_gt(self, other) == ~Version_lt(self, other) /\ TRUE

\* x put into the ascending list init, behind the elements that are not
\* greater than it
InsertAscending(init, x) ==
    LET after == {i \in 1..Len(init) : Version_lt(x, init[i])}
        k == IF after = {} THEN Len(init) + 1
             ELSE CHOOSE i \in after : \A j \in after : i <= j
    IN SubSeq(init, 1, k - 1) \o <<x>> \o SubSeq(init, k, Len(init))

\* sorted(versions): a stable sort that consults __lt__ only
RECURSIVE sorted(_)
sorted(versions) ==
    IF versions = <<>> THEN <<>>
    ELSE InsertAscending(sorted(SubSeq(versions, 1, Len(versions) - 1)),
                         versions[Len(versions)])

\* x put into the descending list init, behind the elements that are not
\* less than it
InsertDescending(init, x) ==
    LET after == {i \in 1..Len(init) : Version_lt(init[i], x)}
        k == IF after = {} THEN Len(init) + 1
             ELSE CHOOSE i \in after : \A j \in after : i <= j
    IN SubSeq(init, 1, k - 1) \o <<x>> \o SubSeq(init, k, Len(init))

\* sorted(versions, reverse=True): descending, equal elements in their
\* original order
RECURSIVE sorted_reverse(_)
sorted_reverse(versions) ==
    IF versions = <<>> THEN <<>>
    ELSE InsertDescending(sorted_reverse(SubSeq(versions, 1, Len(versions) - 1)),
                          versions[Len(versions)])

(***************************************************************************)
(* VersionChange                                                           *)
(***************************************************************************)

VersionChangeValue == {"none", "patch", "minor", "major"}

\* VersionChange.__int__
VersionChange_int(value) ==
    CASE value = "major" -> 3
      [] value = "minor" -> 2
      [] value = "patch" -> 1
      [] value = "none" -> 0

\* VersionChange.__lt__
VersionChange_lt(self, other) == VersionChange_int(self) < VersionChange_int(other)

\* self > other as total_ordering derives it: (not self < other) and
\* self != other, where != is the identity comparison of two objects
VersionChange_gt(self, other) == ~VersionChange_lt(self, other) /\ TRUE

\* change == "none" in get_next_version: VersionChange defines no __eq__,
\* so a VersionChange object never equals a str
VersionChange_eq_str(self, text) == FALSE

get_version_change_from_diff(a, b) ==
    IF a.major # b.major THEN "major"
    ELSE IF a.minor # b.minor THEN "minor"
    ELSE IF a.patch # b.patch THEN "patch"
    ELSE "none"

version_tags ==
    << [tag |-> <<"b", "u", "i", "l", "d", ":">>, change |-> "patch"],
       [tag |-> <<"c", "h", "o", "r", "e", ":">>, change |-> "patch"],
       [tag |-> <<"c", "i", ":">>, change |-> "patch"],
       [tag |-> <<"d", "o", "c", "s", ":">>, change |-> "patch"],
       [tag |-> <<"f", "e", "a", "t", ":">>, change |-> "minor"],
       [tag |-> <<"f", "i", "x", ":">>, change |-> "patch"],
       [tag |-> <<"p", "e", "r", "f", ":">>, change |-> "patch"],
       [tag |-> <<"s", "t", "y", "l", "e", ":">>, change |-> "patch"],
       [tag |-> <<"r", "e", "f", "a", "c", "t", "o", "r", ":">>, change |-> "minor"],
       [tag |-> <<"t", "e", "s", "t", ":">>, change |-> "patch"] >>

BreakingMarker ==
    <<"B", "R", "E", "A", "K", "I", "N", "G", " ", "C", "H", "A", "N", "G", "E", ":">>

\* get_version_change_from_message without the scan of the later lines for
\* the breaking-change marker
first_line_change_only(message) ==
    LET lines == SplitLines(Strip(message))
        hits == {i \in 1..Len(version_tags) :
                    lines # <<>> /\ StartsWith(lines[1], version_tags[i].tag)}
    IN IF hits = {} THEN "none"
       ELSE version_tags[CHOOSE i \in hits : \A j \in hits : i <= j].change

get_version_change_from_message(message) ==
    LET lines == SplitLines(Strip(message))
    IN IF lines = <<>> THEN "none"
       ELSE LET header == lines[1]
                hits == {i \in 1..Len(version_tags) :
                            StartsWith(header, version_tags[i].tag)}
            IN IF hits = {} THEN "none"
               ELSE LET first == CHOOSE i \in hits : \A j \in hits : i <= j
                    IN IF \E k \in 2..Len(lines) : StartsWith(lines[k], BreakingMarker)
                       THEN "major"
                       ELSE version_tags[first].change

(***************************************************************************)
(* Branch rules                                                            *)
(***************************************************************************)

version_rules ==
    << [branch |-> <<"m", "a", "i", "n">>, prerelease_token |-> NoText,
        add_build_metadata |-> FALSE],
       [branch |-> <<"d", "e", "v">>,
        prerelease_token |-> SomeText(<<"r", "c">>),
        add_build_metadata |-> FALSE],
       [branch |-> <<".", "*">>,
        prerelease_token |-> SomeText(<<"a", "l", "p", "h", "a">>),
        add_build_metadata |-> TRUE] >>

\* re.compile(pattern).match(text) for the patterns of version_rules: a
\* pattern of plain letters matches a text that starts with it, and ".*"
\* matches every text
rule_regex_match(pattern, text) ==
    IF pattern = <<".", "*">> THEN TRUE ELSE StartsWith(text, pattern)

\* the index in version_rules of the rule returned, 0 for None
determine_version_rule(b) ==
    LET hits == {i \in 1..Len(version_rules) :
                    rule_regex_match(version_rules[i].branch, b)}
    IN IF hits = {} THEN 0
       ELSE CHOOSE i \in hits : \A j \in hits : i <= j

(***************************************************************************)
(* Tags to versions                                                        *)
(***************************************************************************)

\* one pass of the loop of parse_versions over a tag that starts with "v",
\* `version` being what from_string gave for it and `rest` what the later
\* passes give. The except clause names packaging.version.InvalidVersion,
\* which neither ValueError nor UnboundLocalError is, so what from_string
\* raises leaves the loop and the function.
parse_tag(version, rest) ==
    IF ~version.ok THEN Raise(version.err)
    ELSE IF rest.ok THEN Ok(<<version.val>> \o rest.val)
    ELSE rest

RECURSIVE parse_versions(_)
parse_versions(ts) ==
    IF ts = <<>> THEN Ok(<<>>)
    ELSE IF ~StartsWith(ts[1], <<"v">>) THEN parse_versions(Tail(ts))
    ELSE parse_tag(from_string(Tail(ts[1])), parse_versions(Tail(ts)))

ZeroText == <<"0", ".", "0", ".", "0">>

\* all_sorted_versions[0] if all_sorted_versions else Version.from_string("0.0.0")
latest_version(all_sorted_versions) ==
    IF all_sorted_versions # <<>> THEN Ok(all_sorted_versions[1])
    ELSE from_string(ZeroText)

\* get_repo_data from the return of parse_versions on
latest_of(parsed) ==
    IF ~parsed.ok THEN parsed ELSE latest_version(sorted_reverse(parsed.val))

\* get_repo_data, given the output of get_tags()
get_repo_data(all_tags) == latest_of(parse_versions(all_tags))

(***************************************************************************)
(* Bumps                                                                   *)
(***************************************************************************)

\* bump_version: its first statement reads Version.clone, an attribute the
\* class does not have
bump_version(version, version_change) == Raise("AttributeError")

\* bump_prerelease: its first statement reads version.release, an attribute
\* Version objects do not have
bump_prerelease(version, prerelease) == Raise("AttributeError")

\* repo_version.is_prerelease: no such attribute
is_prerelease(version) == Raise("AttributeError")

\* Version(text): __init__ requires major, minor and patch
Version_init_text(text) == Raise("TypeError")

\* s.replace(old, new) for a non-empty old: every occurrence of the literal
\* text old, found left to right
RECURSIVE Replace(_, _, _)
Replace(s, old, new) ==
    IF Len(s) < Len(old) THEN s
    ELSE IF StartsWith(s, old)
         THEN new \o Replace(SubSeq(s, Len(old) + 1, Len(s)), old, new)
    ELSE <<s[1]>> \o Replace(Tail(s), old, new)

\* the first argument of branch.replace in get_next_version
MetadataPattern ==
    <<"[", "^", "a", "-", "z", "A", "-", "Z", "0", "-", "9", "]", "+">>

\* branch.replace("[^a-zA-Z0-9]+", ".")
branch_replace(b) == Replace(b, MetadataPattern, <<".">>)

\* what get_next_version returns: the text, and with it the Version object
\* it is the rendering of
Returned(version, text) ==
    IF text.ok THEN Ok([version |-> version, text |-> text.val]) ELSE text

\* lines 453-458, `version` being what the dispatch on the rule gave
finish_version(r, version, b, fl) ==
    IF ~version.ok THEN version
    ELSE IF version_rules[r].add_build_metadata
         THEN Version_init_text(VersionText(version.val) \o <<"+">>
                                  \o branch_replace(b))
    ELSE Returned(version.val, as_string(version.val, fl))

\* lines 446-452: the rule has no prerelease token
stable_version(pre, repo, drift, chg) ==
    IF ~pre.ok THEN pre
    ELSE IF ~pre.val THEN bump_version(repo, chg)
    ELSE IF VersionChange_lt(drift, chg) THEN bump_version(repo, chg)
    ELSE Version_init_text(ReleaseText(repo))

\* line 444
prerelease_version(base, token) ==
    IF base.ok THEN bump_prerelease(base.val, token) ELSE base

\* lines 438-452
dispatch(r, repo, drift, chg) ==
    IF version_rules[r].prerelease_token.some
    THEN prerelease_version(IF VersionChange_lt(drift, chg)
                            THEN bump_version(repo, chg)
                            ELSE Ok(repo),
                            version_rules[r].prerelease_token.text)
    ELSE stable_version(is_prerelease(repo), repo, drift, chg)

\* the changes bump_version is invoked with in lines 432-452: none after the
\* short circuit; on a rule with a prerelease token the change when
\* drift < change; on a rule without, none, since the test of line 446 raises
bump_version_calls(r, repo, ancestor, chg) ==
    IF VersionChange_eq_str(chg, "none") THEN {}
    ELSE IF version_rules[r].prerelease_token.some
              /\ VersionChange_lt(get_version_change_from_diff(repo, ancestor), chg)
         THEN {chg}
    ELSE {}

\* get_next_version from the return of get_ancestral_data on (lines 432-458)
resolve(r, repo, ancestor_release, chg, b, fl) ==
    IF VersionChange_eq_str(chg, "none")
    THEN Returned(ancestor_release, Ok(VersionText(ancestor_release)))
    ELSE finish_version(
             r,
             dispatch(r, repo,
                      get_version_change_from_diff(repo, ancestor_release), chg),
             b, fl)

(***************************************************************************)
(* The repository, as the version-control tool reports it                  *)
(***************************************************************************)

\* the texts of a set in increasing order (the tool lists tags sorted)
RECURSIVE SortTexts(_)
SortTexts(S) ==
    IF S = {} THEN <<>>
    ELSE LET least == CHOOSE t \in S : \A u \in S : ~TextLt(u, t)
         IN <<least>> \o SortTexts(S \ {least})

\* git tag
git_tag == SortTexts(UNION {commits[i].tags : i \in 1..Len(commits)})

\* git tag --points-at <hash>
git_tag_points_at(hash) == SortTexts(commits[hash].tags)

\* git rev-list <hash> --format=%B --no-commit-header --max-count=1
git_message(hash) == commits[hash].message

\* git rev-list HEAD --format=%H --no-commit-header --max-count=1
git_head == Len(commits)

\* a skip query put to the branch as it is now, not to the hash given
skip_from_current_head(from, n) ==
    IF Len(commits) - n >= 1 THEN Len(commits) - n ELSE 0

\* a skip query that passes over one commit more than asked
skip_one_more(from, n) == IF from - n - 1 >= 1 THEN from - n - 1 ELSE 0

\* git rev-list <from> --max-count=1 --skip=<n>: 0 for no output
git_rev_list_skip(from, n) == IF from - n >= 1 THEN from - n ELSE 0

\* exit codes of a process call: run_command raises on a non-zero one
ExitCodes == {0, 1}

(***************************************************************************)
(* get_next_version, one action per process call                           *)
(***************************************************************************)

NoVersion == Version(0, 0, 0, NoPre, NoText)

\* a call that has not ended
NoResult == [ok |-> FALSE, err |-> "", val |-> <<>>]

\* Commit(hash=..., message=..., tags=...)
Commit(hash, message, tags_) == [hash |-> hash, message |-> message, tags |-> tags_]

\* the failed call is issued again: what an execution that retried would do
retry_call(e) ==
    /\ pc' = pc
    /\ result' = Raise(e)

\* the call raises e
Fail(e) ==
    /\ pc' = "failed"
    /\ result' = Raise(e)

\* get_ancestral_data raises e
Abort(e) ==
    /\ Fail(e)
    /\ ancestral_data' = Raise(e)
    /\ UNCHANGED bumps

\* get_ancestral_data returned or raised `ancestral`; the rest of
\* get_next_version follows without a further process call
Finish(ancestral, chg) ==
    IF ~ancestral.ok THEN Abort(ancestral.err)
    ELSE LET r == resolve(rule, repo_version, ancestral.val, chg, branch, flavor)
         IN /\ pc' = IF r.ok THEN "done" ELSE "failed"
            /\ result' = r
            /\ ancestral_data' = ancestral
            /\ bumps' = bump_version_calls(rule, repo_version, ancestral.val, chg)

\* lines 414-422: get_current_branch and determine_version_rule
GetCurrentBranch ==
    /\ pc = "get_current_branch"
    /\ ncalls' = ncalls + 1
    /\ \E rc \in ExitCodes :
         /\ returncode' = rc
         /\ IF rc # 0
            THEN Fail("CalledProcessError") /\ UNCHANGED rule
            ELSE /\ rule' = determine_version_rule(Strip(branch))
                 /\ IF rule' = 0 THEN Fail("ValueError")
                    ELSE pc' = "get_repo_data" /\ UNCHANGED result
    /\ UNCHANGED <<branch, commits, flavor, repo_version, head, commit_hash,
                   skip, tags, change, yielded, ancestral_data, bumps>>
    /\ UNCHANGED fnVars

\* lines 424-426: get_repo_data over get_tags
GetRepoData ==
    /\ pc = "get_repo_data"
    /\ ncalls' = ncalls + 1
    /\ \E rc \in ExitCodes :
         /\ returncode' = rc
         /\ IF rc # 0
            THEN Fail("CalledProcessError") /\ UNCHANGED repo_version
            ELSE LET latest == get_repo_data(git_tag)
                 IN IF latest.ok
                    THEN /\ repo_version' = latest.val
                         /\ pc' = "get_commits"
                         /\ UNCHANGED result
                    ELSE Fail(latest.err) /\ UNCHANGED repo_version
    /\ UNCHANGED <<branch, commits, flavor, rule, head, commit_hash, skip,
                   tags, change, yielded, ancestral_data, bumps>>
    /\ UNCHANGED fnVars

\* lines 353-354 and 37-51: get_ancestral_data starts get_commits, which
\* resolves HEAD
GetCommitsHead ==
    /\ pc = "get_commits"
    /\ ncalls' = ncalls + 1
    /\ \E rc \in ExitCodes :
         /\ returncode' = rc
         /\ IF rc # 0
            THEN /\ Abort("CalledProcessError")
                 /\ UNCHANGED <<head, commit_hash, skip, change>>
            ELSE /\ head' = git_head
                 /\ commit_hash' = head'
                 /\ skip' = 0
                 /\ change' = "none"
                 /\ IF head' # 0
                    THEN /\ pc' = "points_at"
                         /\ UNCHANGED <<result, ancestral_data, bumps>>
                    ELSE Finish(from_string(ZeroText), change')
    /\ UNCHANGED <<branch, commits, flavor, rule, repo_version, tags, yielded>>
    /\ UNCHANGED fnVars

\* lines 52-53: the tags of the commit
GetTagsAt ==
    /\ pc = "points_at"
    /\ ncalls' = ncalls + 1
    /\ \E rc \in ExitCodes :
         /\ returncode' = rc
         /\ IF rc # 0
            THEN Abort("CalledProcessError") /\ UNCHANGED <<skip, tags>>
            ELSE /\ skip' = skip + 1
                 /\ tags' = git_tag_points_at(commit_hash)
                 /\ pc' = "message"
                 /\ UNCHANGED <<result, ancestral_data, bumps>>
    /\ UNCHANGED <<branch, commits, flavor, rule, repo_version, head,
                   commit_hash, change, yielded>>
    /\ UNCHANGED fnVars

\* lines 54-66: the message of the commit, which is then yielded; lines
\* 355-362: the body of the loop of get_ancestral_data
GetMessage ==
    /\ pc = "message"
    /\ ncalls' = ncalls + 1
    /\ \E rc \in ExitCodes :
         /\ returncode' = rc
         /\ IF rc # 0
            THEN Abort("CalledProcessError") /\ UNCHANGED <<change, yielded>>
            ELSE LET message == Strip(git_message(commit_hash))
                     parsed == parse_versions(tags)
                 IN /\ yielded' = Append(yielded, Commit(commit_hash, message, tags))
                    /\ IF ~parsed.ok THEN Abort(parsed.err) /\ UNCHANGED change
                       ELSE LET sorted_versions == sorted(parsed.val)
                                releases == {i \in 1..Len(sorted_versions) :
                                                ~sorted_versions[i].pre.some}
                            IN IF releases # {}
                               THEN LET i == CHOOSE j \in releases :
                                                \A k \in releases : j <= k
                                    IN /\ Finish(Ok(sorted_versions[i]), change)
                                       /\ UNCHANGED change
                               ELSE LET current_change ==
                                            get_version_change_from_message(message)
                                    IN /\ change' =
                                            IF VersionChange_gt(current_change, change)
                                            THEN current_change ELSE change
                                       /\ pc' = "skip"
                                       /\ UNCHANGED <<result, ancestral_data, bumps>>
    /\ UNCHANGED <<branch, commits, flavor, rule, repo_version, head,
                   commit_hash, skip, tags>>
    /\ UNCHANGED fnVars

\* lines 68-73 and 51: the next older commit; with none left the loop of
\* get_ancestral_data ends and line 363 follows
GetSkip ==
    /\ pc = "skip"
    /\ ncalls' = ncalls + 1
    /\ \E rc \in ExitCodes :
         /\ returncode' = rc
         /\ IF rc # 0
            THEN Abort("CalledProcessError") /\ UNCHANGED commit_hash
            ELSE /\ commit_hash' = git_rev_list_skip(head, skip)
                 /\ IF commit_hash' # 0
                    THEN /\ pc' = "points_at"
                         /\ UNCHANGED <<result, ancestral_data, bumps>>
                    ELSE Finish(from_string(ZeroText), change)
    /\ UNCHANGED <<branch, commits, flavor, rule, repo_version, head, skip,
                   tags, change, yielded>>
    /\ UNCHANGED fnVars

(***************************************************************************)
(* Bounds and inputs                                                       *)
(***************************************************************************)

MaxCommits == 2

MaxMajor == 1

MaxMinor == 1

MaxPatch == 2

BigPatch == 12

MaxCount == 2

MaxBodyLines == 2

\* commits another process adds on top of the longest history
MaxAdded == 1

VersionFlavor == {"semver", "docker", "node", "git"}

Main == <<"m", "a", "i", "n">>

Dev == <<"d", "e", "v">>

FeatureXY == <<"f", "e", "a", "t", "u", "r", "e", "/", "x", "-", "y">>

Branches == {Main, Dev, FeatureXY}

Rc == <<"r", "c">>

Alpha == <<"a", "l", "p", "h", "a">>

TagRelease == <<"v", "1", ".", "0", ".", "0">>

TagRc1 == <<"v", "1", ".", "0", ".", "1", "-", "r", "c", ".", "1">>

TagNext == <<"v", "N", "e", "x", "t">>

TagOther == <<"n", "o", "t", "-", "a", "-", "v", "e", "r", "s", "i", "o", "n">>

TagPool == {TagRelease, TagRc1, TagNext, TagOther}

MsgFeat == <<"f", "e", "a", "t", ":", " ", "x">>

MsgWip == <<"w", "i", "p">>

MsgBreaking == <<"f", "i", "x", ":", " ", "y", "\n">> \o BreakingMarker \o <<" ", "z">>

MsgPool == {MsgFeat, MsgWip, MsgBreaking}

\* histories of n commits: every tag of the pool points at one commit or is
\* absent (0), since a tag name is unique in a repository
HistoriesOfLen(n) ==
    { [i \in 1..n |-> [tags |-> {t \in TagPool : place[t] = i},
                       message |-> msgs[i]]] :
        place \in [TagPool -> 0..n], msgs \in [1..n -> MsgPool] }

Histories == UNION {HistoriesOfLen(n) : n \in 1..MaxCommits}

\* the histories whose tags name prereleases or no version: the ones over
\* which an execution gets as far as the walk
WalkedHistories ==
    {h \in Histories : \A i \in 1..Len(h) : h[i].tags \subseteq {TagRc1, TagOther}}

PrePool == {NoPre} \cup {Pre(t, c) : t \in {Rc, Alpha}, c \in 1..MaxCount}

MetaBranch == <<"f", ".", "x", ".", "2">>

MetaPool == {NoText, SomeText(<<"a">>), SomeText(MetaBranch)}

\* versions rendered and parsed
VersionPool ==
    { Version(ma, mi, pa, pre, md) :
        ma \in 0..MaxMajor, mi \in 0..MaxMinor,
        pa \in (0..MaxPatch) \cup {BigPatch}, pre \in PrePool, md \in MetaPool }

\* versions compared
OrderPool ==
    { Version(ma, mi, pa, pre, md) :
        ma \in 0..MaxMajor, mi \in 0..MaxMinor, pa \in 0..MaxPatch,
        pre \in PrePool, md \in {NoText, SomeText(<<"a">>)} }

\* texts parsed that no rendering produces
OddTexts ==
    { <<"1", ".", "0", ".", "0", "-", "r", "c">>,
      <<"1", ".", "0", ".", "0", "-", ".", "1">>,
      <<"1", ".", "0">>,
      <<"N", "e", "x", "t">>,
      <<>>,
      <<"0", "1", ".", "0", ".", "0", "-", "r", "c", ".", "0", "1">>,
      <<"1", ".", "0", ".", "0", "-", "a", ".", "b", ".", "2">>,
      <<"1", ".", "0", ".", "0", "-", "r", "c", ".", "1", "x">>,
      <<"1", ".", "0", ".", "0", "+">> }

ParsedTexts == {as_string(v, "semver").val : v \in VersionPool} \cup OddTexts

HeaderPool ==
    {version_tags[i].tag \o <<" ", "x">> : i \in 1..Len(version_tags)}
      \cup {MsgWip, BreakingMarker \o <<" ", "x">>}

BodyLinePool ==
    { <<>>, BreakingMarker \o <<" ", "z">>, <<" ">> \o BreakingMarker,
      <<"n", "o", "t", "e">> }

Bodies == UNION {[1..n -> BodyLinePool] : n \in 0..MaxBodyLines}

\* "\n".join(lines)
RECURSIVE JoinLines(_)
JoinLines(lines) ==
    IF lines = <<>> THEN <<>>
    ELSE IF Len(lines) = 1 THEN lines[1]
    ELSE lines[1] \o <<"\n">> \o JoinLines(Tail(lines))

MessagePool ==
    {JoinLines(<<h>> \o b) : h \in HeaderPool, b \in Bodies}
      \cup {<<>>, <<" ", "\n">>, <<"\n">> \o MsgFeat, <<"\n">> \o BreakingMarker}

BranchPool ==
    { p \o s :
        p \in {<<>>, Main, Dev, <<"x">>, <<"f", "e", "a", "t", "u", "r", "e", "/">>},
        s \in {<<>>, <<"t", "e", "n", "a", "n", "c", "e">>,
               <<"-", "h", "o", "t", "f", "i", "x">>, <<"e", "l", "o", "p">>,
               Main, <<"x", "-", "y">>} }

(***************************************************************************)
(* The functions of the module, applied to given arguments                 *)
(***************************************************************************)

Call_as_string ==
    /\ fn = ""
    /\ \E v \in VersionPool, fl \in VersionFlavor :
         /\ fn' = "as_string"
         /\ arg' = <<v, fl>>
         /\ ret' = as_string(v, fl)
    /\ UNCHANGED runVars

Call_from_string ==
    /\ fn = ""
    /\ \E value \in ParsedTexts :
         /\ fn' = "from_string"
         /\ arg' = value
         /\ ret' = from_string(value)
    /\ UNCHANGED runVars

Call_lt ==
    /\ fn = ""
    /\ \E a \in OrderPool, b \in OrderPool :
         /\ fn' = "lt"
         /\ arg' = <<a, b>>
         /\ ret' = Version_lt(a, b)
    /\ UNCHANGED runVars

\* a > b for two Version objects
Call_gt ==
    /\ fn = ""
    /\ \E a \in OrderPool, b \in OrderPool :
         /\ fn' = "gt"
         /\ arg' = <<a, b>>
         /\ ret' = Version_gt(a, b)
    /\ UNCHANGED runVars

Call_get_version_change_from_message ==
    /\ fn = ""
    /\ \E message \in MessagePool :
         /\ fn' = "get_version_change_from_message"
         /\ arg' = message
         /\ ret' = get_version_change_from_message(message)
    /\ UNCHANGED runVars

Call_determine_version_rule ==
    /\ fn = ""
    /\ \E b \in BranchPool :
         /\ fn' = "determine_version_rule"
         /\ arg' = b
         /\ ret' = determine_version_rule(b)
    /\ UNCHANGED runVars

Call_bump_version ==
    /\ fn = ""
    /\ \E version \in VersionPool, version_change \in VersionChangeValue :
         /\ fn' = "bump_version"
         /\ arg' = <<version, version_change>>
         /\ ret' = bump_version(version, version_change)
    /\ UNCHANGED runVars

(***************************************************************************)
(* Specifications                                                          *)
(***************************************************************************)

RunIdle ==
    /\ rule = 0
    /\ repo_version = NoVersion
    /\ head = 0
    /\ commit_hash = 0
    /\ skip = 0
    /\ tags = <<>>
    /\ change = "none"
    /\ ncalls = 0
    /\ returncode = 0
    /\ yielded = <<>>
    /\ ancestral_data = NoResult
    /\ bumps = {}
    /\ result = NoResult

FnIdle ==
    /\ fn = ""
    /\ arg = <<>>
    /\ ret = <<>>

\* one execution of get_next_version on a repository
Init ==
    /\ branch \in Branches
    /\ commits \in Histories
    /\ flavor \in VersionFlavor
    /\ pc = "get_current_branch"
    /\ RunIdle
    /\ FnIdle

Next ==
    \/ GetCurrentBranch
    \/ GetRepoData
    \/ GetCommitsHead
    \/ GetTagsAt
    \/ GetMessage
    \/ GetSkip

Spec == Init /\ [][Next]_vars

\* another process commits on the branch: the new commit is the newest of
\* the history and takes the next hash; the commits below it stay as they are
OtherProcessCommits ==
    /\ pc \notin {"done", "failed"}
    /\ Len(commits) < MaxCommits + MaxAdded
    /\ commits' = Append(commits, [tags |-> {}, message |-> MsgFeat])
    /\ UNCHANGED <<branch, flavor, pc, rule, repo_version, head, commit_hash,
                   skip, tags, change, ncalls, returncode, yielded,
                   ancestral_data, bumps, result>>
    /\ UNCHANGED fnVars

\* one execution of get_next_version on a repository another process
\* commits to
ConcInit ==
    /\ branch \in Branches
    /\ commits \in WalkedHistories
    /\ flavor = "semver"
    /\ pc = "get_current_branch"
    /\ RunIdle
    /\ FnIdle

ConcNext ==
    \/ Next
    \/ OtherProcessCommits

ConcSpec == ConcInit /\ [][ConcNext]_vars

\* applications of the functions of the module
FnInit ==
    /\ branch = <<>>
    /\ commits = <<>>
    /\ flavor = "semver"
    /\ pc = "idle"
    /\ RunIdle
    /\ FnIdle

FnNext ==
    \/ Call_as_string
    \/ Call_from_string
    \/ Call_lt
    \/ Call_get_version_change_from_message
    \/ Call_determine_version_rule
    \/ Call_bump_version
    \/ Call_gt

FnSpec == FnInit /\ [][FnNext]_vars

(***************************************************************************)
(* The terms of the specification in which the claims are stated           *)
(***************************************************************************)

\* the order of versions: (major, minor, patch), then a release after its
\* prereleases, then (tag, counter)
ClaimedLess(a, b) ==
    IF a.major # b.major THEN a.major < b.major
    ELSE IF a.minor # b.minor THEN a.minor < b.minor
    ELSE IF a.patch # b.patch THEN a.patch < b.patch
    ELSE IF ~a.pre.some THEN FALSE
    ELSE IF ~b.pre.some THEN TRUE
    ELSE IF a.pre.tag # b.pre.tag THEN TextLt(a.pre.tag, b.pre.tag)
    ELSE a.pre.count < b.pre.count

\* the version a match of MAJOR.MINOR.PATCH[-TAG.COUNT][+METADATA] names
ClaimedMatchVersion(m) ==
    Version(TextToNat(m.major), TextToNat(m.minor), TextToNat(m.patch),
            IF m.pre_tag.some
            THEN Pre(m.pre_tag.text, TextToNat(m.pre_count.text)) ELSE NoPre,
            m.metadata)

\* the versions (none or one) a tag names: "v" and then a valid version
ClaimedTagVersions(tag) ==
    IF ~StartsWith(tag, <<"v">>) THEN {}
    ELSE IF ~version_re(Tail(tag)).matched THEN {}
    ELSE IF version_re(Tail(tag)).pre_tag.some
              /\ version_re(Tail(tag)).pre_tag.text = <<>> THEN {}
    ELSE {ClaimedMatchVersion(version_re(Tail(tag)))}

ClaimedVersions(tagset) == UNION {ClaimedTagVersions(t) : t \in tagset}

ClaimedMax(S) == CHOOSE v \in S : \A u \in S : ~ClaimedLess(v, u)

AllTags == UNION {commits[i].tags : i \in 1..Len(commits)}

\* repo_version: the maximum of the versions the tags name, 0.0.0 without any
ClaimedRepoVersion ==
    IF ClaimedVersions(AllTags) = {} THEN NoVersion
    ELSE ClaimedMax(ClaimedVersions(AllTags))

ClaimedReleases(i) == {v \in ClaimedVersions(commits[i].tags) : ~v.pre.some}

\* the commit nearest to HEAD that carries a non-prerelease version tag, 0
\* without any
ClaimedAncestorAt ==
    IF \A i \in 1..Len(commits) : ClaimedReleases(i) = {} THEN 0
    ELSE CHOOSE i \in 1..Len(commits) :
            /\ ClaimedReleases(i) # {}
            /\ \A j \in (i + 1)..Len(commits) : ClaimedReleases(j) = {}

\* ancestor_release
ClaimedAncestor ==
    IF ClaimedAncestorAt = 0 THEN NoVersion
    ELSE ClaimedMax(ClaimedReleases(ClaimedAncestorAt))

\* change: the largest change of the messages of the commits newer than
\* the ancestor
ClaimedChange ==
    LET found == {get_version_change_from_message(commits[i].message) :
                     i \in (ClaimedAncestorAt + 1)..Len(commits)}
    IN IF found = {} THEN "none"
       ELSE CHOOSE c \in found :
               \A d \in found : VersionChange_int(d) <= VersionChange_int(c)

\* bump(version, change)
ClaimedBump(v, c) ==
    CASE c = "major" -> Version(v.major + 1, 0, 0, NoPre, NoText)
      [] c = "minor" -> Version(v.major, v.minor + 1, 0, NoPre, NoText)
      [] c = "patch" -> Version(v.major, v.minor, v.patch + 1, NoPre, NoText)

\* drift = diff(repo_version, ancestor_release)
ClaimedDrift == get_version_change_from_diff(ClaimedRepoVersion, ClaimedAncestor)

ClaimedDriftBelowChange ==
    VersionChange_int(ClaimedDrift) < VersionChange_int(ClaimedChange)

\* the stable-track rule
ClaimedStable ==
    IF ~ClaimedRepoVersion.pre.some \/ ClaimedDriftBelowChange
    THEN ClaimedBump(ClaimedRepoVersion, ClaimedChange)
    ELSE [ClaimedRepoVersion EXCEPT !.pre = NoPre, !.metadata = NoText]

\* the base version of the prerelease-track rule
ClaimedBase ==
    IF ClaimedDriftBelowChange
    THEN ClaimedBump(ClaimedRepoVersion, ClaimedChange)
    ELSE ClaimedRepoVersion

\* the prerelease of the prerelease-track rule
ClaimedPre(token) ==
    IF ClaimedRepoVersion.pre.some /\ ClaimedRepoVersion.pre.tag = token
    THEN Pre(token, ClaimedRepoVersion.pre.count + 1)
    ELSE Pre(token, 1)

\* s without its leading characters that are not alphanumeric
RECURSIVE SkipNonAlnum(_)
SkipNonAlnum(s) ==
    IF s = <<>> THEN s
    ELSE IF IsAlnum(s[1]) THEN s
    ELSE SkipNonAlnum(Tail(s))

\* the branch name with every run of non-alphanumeric characters replaced
\* by one "."
RECURSIVE ClaimedMetadata(_)
ClaimedMetadata(s) ==
    IF s = <<>> THEN s
    ELSE IF IsAlnum(s[1]) THEN <<s[1]>> \o ClaimedMetadata(Tail(s))
    ELSE <<".">> \o ClaimedMetadata(SkipNonAlnum(s))

\* get_next_version has ended, and not by a failed process call
Resolved ==
    /\ pc \in {"done", "failed"}
    /\ ~(pc = "failed" /\ result.err = "CalledProcessError")

MatchedRule == version_rules[rule]

(***************************************************************************)
(* Claims                                                                  *)
(***************************************************************************)

\* C1: when the largest change of the commits down to the nearest
\* non-prerelease-tagged ancestor is none, get_next_version does not fail and
\* returns ancestor_release as it is: nothing bumped, no prerelease, no
\* metadata.
C1_NoChangeShortCircuit ==
    (Resolved /\ ClaimedChange = "none")
      => /\ result.ok
         /\ result.val.version = ClaimedAncestor
         /\ result.val.text
              \in {as_string(ClaimedAncestor, fl).val : fl \in VersionFlavor}

\* C2: on a rule without prerelease tag and with a change other than none,
\* the resolved version is bump(repo_version, change) when repo_version is no
\* prerelease or drift < change, and otherwise repo_version without its
\* prerelease suffix.
C2_StableTrackDispatch ==
    (Resolved /\ ~MatchedRule.prerelease_token.some /\ ClaimedChange # "none")
      => /\ result.ok
         /\ result.val.version = ClaimedStable

\* C3: on a rule with a prerelease tag and with a change other than none, the
\* major.minor.patch of the resolved version is that of
\* bump(repo_version, change) when drift < change and that of repo_version
\* otherwise.
C3_PrereleaseTrackBase ==
    (Resolved /\ MatchedRule.prerelease_token.some /\ ClaimedChange # "none")
      => /\ result.ok
         /\ result.val.version.major = ClaimedBase.major
         /\ result.val.version.minor = ClaimedBase.minor
         /\ result.val.version.patch = ClaimedBase.patch

\* C4: on a rule with a prerelease tag and with a change other than none, the
\* resolved version carries the rule's tag, with repo_version's counter plus
\* one when repo_version carries the same tag and with counter 1 otherwise.
C4_PrereleaseCounter ==
    (Resolved /\ MatchedRule.prerelease_token.some /\ ClaimedChange # "none")
      => /\ result.ok
         /\ result.val.version.pre = ClaimedPre(MatchedRule.prerelease_token.text)

\* C5: a < b holds exactly when a is before b in the order that compares
\* (major, minor, patch) first, puts a release after each of its prereleases
\* and compares two prereleases by (tag, counter).
C5_VersionOrdering ==
    fn = "lt" => ret = ClaimedLess(arg[1], arg[2])

\* C6: parsing the semver rendering of a version gives that version back:
\* same major, minor, patch, prerelease tag and counter, and metadata.
C6_SemverRoundTrip ==
    fn = "from_string"
      => \A v \in VersionPool :
            arg = as_string(v, "semver").val => ret.ok /\ ret.val = v

\* the lines of a commit message, as the classification reads them
MessageLines(message) == SplitLines(Strip(message))

\* a line after the first starts with the breaking-change marker
BreakingLater(message) ==
    \E k \in 2..Len(MessageLines(message)) :
        StartsWith(MessageLines(message)[k], BreakingMarker)

\* the first line starts with a conventional-commit prefix
HeaderRecognized(message) ==
    /\ MessageLines(message) # <<>>
    /\ \E i \in 1..Len(version_tags) :
          StartsWith(MessageLines(message)[1], version_tags[i].tag)

\* C7 as claimed: a message with a later line that starts with
\* "BREAKING CHANGE:" classifies as major, whatever its first line.
C7_BreakingAlwaysMajor ==
    (fn = "get_version_change_from_message" /\ BreakingLater(arg))
      => ret = "major"

\* C7: a message with a later line that starts with "BREAKING CHANGE:"
\* classifies as major when its first line starts with a recognized prefix,
\* and as none when it does not.
C7_BreakingOverride ==
    (fn = "get_version_change_from_message" /\ BreakingLater(arg))
      => ret = IF HeaderRecognized(arg) THEN "major" ELSE "none"

\* C7: a message "chore: ..." with a breaking-change line was classified major
C7_Witness ==
    /\ fn = "get_version_change_from_message"
    /\ StartsWith(arg, version_tags[2].tag)
    /\ BreakingLater(arg)
    /\ ret = "major"

\* C8: get_repo_data never fails over the tags of the repository: tags that
\* name no version are left out, and repo_version is the maximum of the
\* versions the other tags name, 0.0.0 without any. (The second process call
\* of an execution is the one that lists the tags.)
C8_UnparseableTagsSkipped ==
    ncalls >= 2
      => IF pc = "failed" /\ ncalls = 2
         THEN result.err = "CalledProcessError"
         ELSE repo_version = ClaimedRepoVersion

\* C9: on a rule that requests build metadata and with a change other than
\* none, the metadata of the resolved version is the branch name with every
\* run of non-alphanumeric characters replaced by one ".".
C9_BuildMetadata ==
    (Resolved /\ MatchedRule.add_build_metadata /\ ClaimedChange # "none")
      => /\ result.ok
         /\ result.val.version.metadata = SomeText(ClaimedMetadata(branch))

\* the rule of the default policy for a branch: the stable rule for "main",
\* the rc rule for "dev", the catch-all rule for every other name
ClaimedRule(b) == IF b = Main THEN 1 ELSE IF b = Dev THEN 2 ELSE 3

\* C10: determine_version_rule selects the stable rule for the branch named
\* "main" only, the rc rule for "dev" and the catch-all rule for every other
\* branch name.
C10_BranchRuleMatching ==
    fn = "determine_version_rule" => ret = ClaimedRule(arg)

\* a text of the form MAJOR.MINOR.PATCH[-TAG.COUNT][+METADATA] whose
\* prerelease suffix, when there is one, has both a tag and a counter
ClaimedWellFormed(s) ==
    /\ version_re(s).matched
    /\ version_re(s).pre_tag.some
          => (version_re(s).pre_tag.text # <<>>
                /\ version_re(s).pre_count.text # <<>>)

\* C11: from_string returns a Version for every well-formed text and fails
\* with the malformed-version error (ValueError in the code), and with no
\* other, for every other text.
C11_MalformedRejected ==
    fn = "from_string"
      => IF ClaimedWellFormed(arg) THEN ret.ok
         ELSE ~ret.ok /\ ret.err = "ValueError"

\* C12: a process call that exits non-zero ends get_next_version at once
\* with that error, and so does a branch that no rule matches; an execution
\* that has failed holds no version and takes no further step (no further
\* call, no retry).
C12_FatalErrorsAbort ==
    [][ /\ returncode' # 0
             => (pc' = "failed" /\ result' = Raise("CalledProcessError"))
        /\ (pc = "get_current_branch" /\ returncode' = 0 /\ rule' = 0)
             => (pc' = "failed" /\ result' = Raise("ValueError"))
        /\ pc' = "failed" => (~result'.ok /\ ncalls' = ncalls + 1)
        /\ pc # "failed" ]_vars

\* C12: the skip query after the first commit, or a later call, has failed
C12_Witness ==
    /\ pc = "failed"
    /\ returncode # 0
    /\ yielded # <<>>
    /\ result = Raise("CalledProcessError")

\* C13: an execution that no failed process call ends returns the rendering,
\* in the requested flavor, of the version it resolved.
C13_FlavorHonoured ==
    Resolved
      => /\ result.ok
         /\ as_string(result.val.version, flavor).ok
         /\ result.val.text = as_string(result.val.version, flavor).val

\* get_ancestral_data has ended, and not by a failed process call
Walked ==
    ancestral_data.ok \/ ancestral_data.err \notin {"", "CalledProcessError"}

\* C14: get_ancestral_data returns the non-prerelease version tagged on the
\* commit nearest to HEAD that carries one (0.0.0 without any) and the
\* largest change of the messages of the commits newer than that commit.
C14_AncestorWalk ==
    Walked
      => /\ ancestral_data.ok
         /\ ancestral_data.val = ClaimedAncestor
         /\ change = ClaimedChange

\* C15: bump_version(v, change), for a change of patch, minor or major,
\* returns the version without prerelease and metadata whose numbers are
\* those of v with the component of the change incremented and the lower
\* components zeroed.
C15_BumpSemantics ==
    (fn = "bump_version" /\ arg[2] # "none")
      => /\ ret.ok
         /\ ret.val = ClaimedBump(arg[1], arg[2])

\* C16: bump_version is never invoked with a change of none, and an
\* execution whose walk accumulated a change of none returns, with no bump
\* made.
C16_NoneNeverBumped ==
    /\ "none" \notin bumps
    /\ (Resolved /\ Walked /\ change = "none")
          => (pc = "done" /\ result.ok /\ bumps = {})

\* the iteration of get_commits was consumed to its end
Exhausted == head # 0 /\ commit_hash = 0

\* C17: the commits get_commits yields are those of the history of HEAD,
\* from HEAD backwards, each once and with the tags that point at it; an
\* iteration consumed to its end has yielded all of them and the execution
\* has ended, after three process calls for each commit at most.
C17_WalkerComplete ==
    /\ Len(yielded) <= Len(commits)
    /\ \A k \in 1..Len(yielded) :
          /\ yielded[k].hash = Len(commits) - k + 1
          /\ {yielded[k].tags[i] : i \in 1..Len(yielded[k].tags)}
                = commits[yielded[k].hash].tags
          /\ Len(yielded[k].tags) = Cardinality(commits[yielded[k].hash].tags)
    /\ Exhausted
          => (Len(yielded) = Len(commits) /\ pc \in {"done", "failed"})
    /\ ncalls <= 3 * Len(commits) + 3

\* C17: an iteration over a history of two commits or more has ended
C17_Witness ==
    /\ Exhausted
    /\ Len(commits) >= 2
    /\ Len(yielded) = Len(commits)
    /\ \E k \in 1..Len(yielded) : yielded[k].tags # <<>>

\* C18: no commit older than the nearest commit with a non-prerelease
\* version tag is fetched, and an execution over a history with such a commit
\* gets its ancestor release from get_ancestral_data after fetching the
\* commits from HEAD down to that commit, and no other.
C18_EarlyStop ==
    /\ \A k \in 1..Len(yielded) : yielded[k].hash >= ClaimedAncestorAt
    /\ (Resolved /\ ClaimedAncestorAt # 0)
          => /\ ancestral_data.ok
             /\ Len(yielded) = Len(commits) - ClaimedAncestorAt + 1

\* v with the build metadata md
WithMetadata(v, md) == [v EXCEPT !.metadata = md]

\* C19: the outcome of a < b and of a > b stays the same when the build
\* metadata of a or of b is replaced or removed, and of two versions that
\* differ in their build metadata only neither is before (<) nor after (>)
\* the other.
C19_MetadataIgnored ==
    /\ fn = "lt"
          => /\ \A ma \in MetaPool, mb \in MetaPool :
                   Version_lt(WithMetadata(arg[1], ma), WithMetadata(arg[2], mb)) = ret
             /\ WithMetadata(arg[1], NoText) = WithMetadata(arg[2], NoText)
                   => ret = FALSE
    /\ fn = "gt"
          => /\ \A ma \in MetaPool, mb \in MetaPool :
                   Version_gt(WithMetadata(arg[1], ma), WithMetadata(arg[2], mb)) = ret
             /\ WithMetadata(arg[1], NoText) = WithMetadata(arg[2], NoText)
                   => ret = FALSE

\* C20: with a change other than none, get_next_version resolves a version
\* that is strictly greater, in the order of versions, than the maximum of
\* the versions already tagged.
C20_NoRegression ==
    (Resolved /\ ClaimedChange # "none")
      => /\ result.ok
         /\ ClaimedLess(ClaimedRepoVersion, result.val.version)

\* C21: the hash get_commits resolved for HEAD stays the one every later
\* query is put against, and the commits yielded are those reachable from
\* it, newest first, none skipped and none twice, whatever another process
\* commits meanwhile; no commit newer than that HEAD is yielded.
C21_WalkerPinned ==
    /\ [](/\ Len(yielded) <= head
          /\ head <= Len(commits)
          /\ \A k \in 1..Len(yielded) :
                /\ yielded[k].hash = head - k + 1
                /\ yielded[k].message = Strip(commits[yielded[k].hash].message)
          /\ Exhausted => Len(yielded) = head)
    /\ [][head # 0 => head' = head]_vars

\* C21: an iteration over two commits or more ended after another process
\* had committed on top of the HEAD it started from
C21_Witness ==
    /\ Exhausted
    /\ head >= 2
    /\ Len(yielded) = head
    /\ Len(commits) > head

====
